---- MODULE Spec2Model ----
(***************************************************************************)
(* Model of package recovery (yabosh/recovery):                            *)
(*   - ExponentialBackoffMS / Backoff            (backoff calculator)      *)
(*   - DontPanic                                  (fault isolator)         *)
(*   - WithRestart, UntilSuccessful               (supervision loops)      *)
(*                                                                         *)
(* Two specifications share the variables:                                 *)
(*   SpecBackoff  calls ExponentialBackoffMS on inputs drawn from bounded  *)
(*                sets;                                                    *)
(*   Spec         runs one supervisor (WithRestart or UntilSuccessful)     *)
(*                around a task whose outcome and run time are chosen by   *)
(*                the environment at every invocation.                     *)
(*                                                                         *)
(* Numbers are milliseconds.  Every number the model reaches is far below  *)
(* 2^53, where the float64 arithmetic of ExponentialBackoffMS (math.Pow,   *)
(* the sum, math.Min, the int conversions) is exact, so it is modelled on  *)
(* integers.                                                               *)
(***************************************************************************)
EXTENDS Integers, Sequences, FiniteSets, TLC

VARIABLES
    args,        \* SpecBackoff: the arguments of the ExponentialBackoffMS call
    ret,         \* SpecBackoff: how the call ended (value or panic)
    panicnil,    \* the build's GODEBUG panicnil setting: TRUE, panic(nil) is
                 \* recovered as nil (Go < 1.21 semantics); FALSE, as a
                 \* *runtime.PanicNilError
    kind,        \* supervisor -> which supervisor function it runs
    pc,          \* supervisor -> position in its loop
    attempt,     \* supervisor -> `attempt` local (dont_panic.go:73, :102)
    err,         \* supervisor -> `err` local, the value DontPanic returned
    elapsed,     \* supervisor -> time.Since(start) of the last attempt, ms
    sleepMs,     \* supervisor -> duration of the sleep in progress, ms
    outcome,     \* supervisor -> how the last task invocation ended
    hist,        \* supervisor -> the task's past invocations (ghost)
    calls,       \* supervisor -> number of DontPanic calls (ghost)
    invocations, \* supervisor -> number of task invocations (ghost)
    sleeps,      \* supervisor -> arguments of every Backoff call so far (ghost)
    log,         \* supervisor -> records handed to the logger / stderr
    task,        \* supervisor -> the ways its task f can end, each an
                 \* outcome and a run time (the argument f)
    clock,       \* supervisor -> time since its last `start := time.Now()`,
                 \* ms; stays 0 in UntilSuccessful, which takes no start time
    lastSleepMs, \* supervisor -> duration of its last finished sleep, until
                 \* its next sleep starts (ghost, kept only where
                 \* scope.tracked)
    scope,       \* what of a run the model follows: the invocation limit and
                 \* whether lastSleepMs is kept
    fail         \* SpecFailOnError: the FailOnError call and its effects

backoffVars == <<args, ret>>
superVars == <<panicnil, kind, pc, attempt, err, elapsed, sleepMs, outcome, hist,
               calls, invocations, sleeps, log, task, clock, lastSleepMs, scope>>
vars == <<args, ret, panicnil, kind, pc, attempt, err, elapsed, sleepMs, outcome,
          hist, calls, invocations, sleeps, log, task, clock, lastSleepMs, scope,
          fail>>

----------------------------------------------------------------------------
(* Bounds of the model.                                                    *)

\* largest `attempts` argument drawn in SpecBackoff
MaxAttempts == 7
\* SpecBackoff draws jitterMS from 0..MaxJitterMS and the supervisors' jitter
MaxJitterMS == 3
\* task invocations after which a supervisor is not followed further
MaxInvocations == 3
\* the same, for each of the supervisors of SpecConcurrent
MaxConcurrentInvocations == 2
\* the same, for the long runs of SpecLong
MaxLongInvocations == 8

----------------------------------------------------------------------------
(* Program constants.                                                      *)

\* const jitter = 100             (WithRestart :74, UntilSuccessful :103)
jitter == 100
\* const maxBackoff = 64000       (WithRestart :75, UntilSuccessful :104)
maxBackoff == 64000
\* const minFunctionRuntimeSecs = 60
minFunctionRuntimeSecs == 60
\* the 1000 of math.Pow(2, attempts)*1000
BaseMS == 1000
\* the status of os.Exit(10) in FailOnError
ExitStatus == 10
\* time.Second in milliseconds
SecondMS == 1000

----------------------------------------------------------------------------
(* Backoff calculator (src/unnamed/part_000).                              *)

Min(a, b) == IF a <= b THEN a ELSE b

RECURSIVE Pow2(_)
\* math.Pow(2, float64(n)) for n >= 0
Pow2(n) == IF n <= 0 THEN 1 ELSE 2 * Pow2(n - 1)

\* rand.Intn(n): some integer of [0, n); it panics when n <= 0
Intn(n) == 0 .. (n - 1)
IntnPanics(n) == n <= 0

\* mutants of ExponentialBackoffMSWith: the cap forgotten; the cap applied
\* before the jitter is added
ExponentialBackoffMSNoCap(attempts, randomMs, maxMS) ==
    Pow2(attempts) * BaseMS + randomMs
ExponentialBackoffMSCapBase(attempts, randomMs, maxMS) ==
    Min(Pow2(attempts) * BaseMS, maxMS) + randomMs

\* line 36, for the value randomMs that line 35 drew
ExponentialBackoffMSWith(attempts, randomMs, maxMS) ==
    Min(Pow2(attempts) * BaseMS + randomMs, maxMS)

\* every value ExponentialBackoffMS(attempts, jitterMS, maxMS) can return;
\* empty when rand.Intn panics
ExponentialBackoffMS(attempts, jitterMS, maxMS) ==
    { ExponentialBackoffMSWith(attempts, randomMs, maxMS) :
        randomMs \in Intn(jitterMS) }

NoArgs == [attempts |-> -1, jitterMS |-> -1, maxMS |-> -1]
NoRet == [kind |-> "none", val |-> -1]

JitterValues == (0 .. MaxJitterMS) \cup {jitter}
MaxValues == {1, 999, 1000, 1001, 1003, 2000, 2002, 4100, maxBackoff}

\* a call of ExponentialBackoffMS: it returns a value, or rand.Intn panics
\* and the panic leaves the function (nothing in it recovers)
CallExponentialBackoffMS ==
    /\ ret.kind = "none"
    /\ IF IntnPanics(args.jitterMS)
         THEN ret' = [kind |-> "panic", val |-> -1]
         ELSE \E v \in ExponentialBackoffMS(args.attempts, args.jitterMS, args.maxMS) :
                 ret' = [kind |-> "value", val |-> v]
    /\ UNCHANGED <<args, superVars, fail>>

----------------------------------------------------------------------------
(* Go values: nil, strings and error values.  `origin` tells an error      *)
(* value the task made from one fmt.Errorf made, so that "the same error   *)
(* value" is not just "the same text".                                     *)

Nil == [type |-> "nil", text |-> "", origin |-> ""]
StringValue(s) == [type |-> "string", text |-> s, origin |-> "task"]
\* errors.New(s) made by the task
ErrorValue(s) == [type |-> "error", text |-> s, origin |-> "task"]
\* the runtime's replacement of a nil panic value (Go >= 1.21)
PanicNilError == [type |-> "PanicNilError",
                  text |-> "panic called with nil argument (obsolete)",
                  origin |-> "runtime"]

\* fmt.Sprintf("%#v", v): the Go-syntax representation of v
GoSyntax(v) ==
    CASE v.type = "nil" -> "<nil>"
      [] v.type = "string" -> "\"" \o v.text \o "\""
      [] v.type = "error" -> "&errors.errorString{s:\"" \o v.text \o "\"}"
      [] v.type = "PanicNilError" -> "&runtime.PanicNilError{_:[0]func(){}}"

\* fmt.Errorf("%#v", v)
Errorf(v) == [type |-> "error", text |-> GoSyntax(v), origin |-> "fmt.Errorf"]

Returns(v) == [kind |-> "return", val |-> v]
Panics(v) == [kind |-> "panic", val |-> v]
NoOutcome == [kind |-> "none", val |-> Nil]

\* what one invocation of the task can do: return nil, return an error,
\* or panic with a string, an error or nil
TaskOutcomes ==
    { Returns(Nil), Returns(ErrorValue("e1")),
      Panics(StringValue("boom")), Panics(ErrorValue("e1")), Panics(Nil) }

----------------------------------------------------------------------------
(* Fault isolator: DontPanic (src/dont_panic.go:33-43).                    *)

\* recover() in the deferred function (line 35): the panic value; nil when
\* the task returned, and, in a panicnil build, when it called panic(nil)
Recover(out, nilAsNil) ==
    IF out.kind # "panic" THEN Nil
    ELSE IF out.val = Nil
           THEN (IF nilAsNil THEN Nil ELSE PanicNilError)
           ELSE out.val

\* mutants of DontPanic: every error is re-made with fmt.Errorf; the
\* deferred recover is missing
DontPanicWrapsAll(opName, out, nilAsNil) ==
    [err |-> IF out.val = Nil THEN Nil ELSE Errorf(out.val),
     log |-> <<>>, propagates |-> FALSE]
DontPanicNoDefer(opName, out, nilAsNil) ==
    [err |-> IF out.kind = "return" THEN out.val ELSE Nil,
     log |-> <<>>, propagates |-> out.kind = "panic"]

\* DontPanic(opName, f) when f() ends as `out`: the named result err, what
\* is logged, and whether a panic leaves DontPanic.  `return f()` assigns
\* err only when f returns; the deferred function runs on every exit and
\* its recover() call stops any panic.
DontPanic(opName, out, nilAsNil) ==
    LET panicErr == Recover(out, nilAsNil)
    IN  IF panicErr # Nil
          THEN [err |-> Errorf(panicErr),
                log |-> << [sev |-> "error", op |-> opName,
                            text |-> GoSyntax(panicErr)],
                           [sev |-> "stack", op |-> "", text |-> ""] >>,
                propagates |-> FALSE]
          ELSE [err |-> IF out.kind = "return" THEN out.val ELSE Nil,
                log |-> <<>>,
                propagates |-> FALSE]

----------------------------------------------------------------------------
(* Supervisors (src/dont_panic.go:72-120).                                 *)

\* the supervisor calls followed; a supervisor's name is its opName
Supervisors == {"x"}

\* run times of one invocation: the last millisecond below the 60 s
\* threshold, and the threshold itself
ElapsedValues ==
    { minFunctionRuntimeSecs * SecondMS - 1,
      minFunctionRuntimeSecs * SecondMS }

\* a task that succeeds or returns an error
LeanOutcomes == { Returns(Nil), Returns(ErrorValue("e1")) }

\* a task that can end as any of outs after any of the run times els
Behaviours(outs, els) == {[out |-> o, ms |-> e] : o \in outs, e \in els}

Warn(opName, text) == [sev |-> "warn", op |-> opName, text |-> text]

\* mutant of StartClock: `start` is taken once, before the loop
StartClockKept(c) == c

\* line 79, start := time.Now(): no time has passed since `start`
StartClock(c) == 0

\* d ms pass: the time since WithRestart's `start` grows by d
Tick(s, d) == IF kind[s] = "WithRestart" THEN clock[s] + d ELSE clock[s]

\* mutant of Invoke: the backoff runs beside the loop (go Backoff(...)), so
\* the next invocation can start while the sleep is still in progress
InvokeDuringSleep(s) ==
    /\ pc[s] \in {"loop", "sleep"}
    /\ invocations[s] < scope.limit
    /\ pc' = [pc EXCEPT ![s] = "task"]
    /\ clock' = [clock EXCEPT ![s] = 0]
    /\ calls' = [calls EXCEPT ![s] = @ + 1]
    /\ invocations' = [invocations EXCEPT ![s] = @ + 1]
    /\ UNCHANGED <<panicnil, kind, task, scope, attempt, err, elapsed, sleepMs,
                   outcome, hist, sleeps, log, lastSleepMs, backoffVars, fail>>

\* WithRestart lines 79-80 / UntilSuccessful line 107: the loop calls
\* DontPanic, which invokes the task (line 42)
Invoke(s) ==
    /\ pc[s] = "loop"
    /\ invocations[s] < scope.limit
    /\ pc' = [pc EXCEPT ![s] = "task"]
    /\ clock' = [clock EXCEPT ![s] = IF kind[s] = "WithRestart"
                                       THEN StartClock(@) ELSE @]
    /\ calls' = [calls EXCEPT ![s] = @ + 1]
    /\ invocations' = [invocations EXCEPT ![s] = @ + 1]
    /\ UNCHANGED <<panicnil, kind, task, scope, attempt, err, elapsed, sleepMs,
                   outcome, hist, sleeps, log, lastSleepMs, backoffVars, fail>>

\* the task ends after e ms as `out`; DontPanic's deferred function runs and
\* DontPanic returns to the supervisor (or the panic goes on to its caller)
TaskEnds(s) ==
    /\ pc[s] = "task"
    /\ \E b \in task[s] :
          LET out == b.out
              e == b.ms
              r == DontPanic(s, out, panicnil)
          IN  /\ outcome' = [outcome EXCEPT ![s] = out]
              /\ clock' = [clock EXCEPT ![s] = Tick(s, e)]
              /\ elapsed' = [elapsed EXCEPT ![s] = clock[s] + e]
              /\ hist' = [hist EXCEPT ![s] = Append(@, [out |-> out, ms |-> e])]
              /\ log' = [log EXCEPT ![s] = @ \o r.log]
              /\ err' = [err EXCEPT ![s] = r.err]
              /\ pc' = [pc EXCEPT ![s] = IF r.propagates THEN "panicked"
                                         ELSE "returned"]
    /\ UNCHANGED <<panicnil, kind, task, scope, attempt, sleepMs, calls,
                   invocations, sleeps, lastSleepMs, backoffVars, fail>>

\* mutant of RanShort: <= for <
RanShortInclusive(ms) == ms <= minFunctionRuntimeSecs * SecondMS

\* line 86: time.Since(start) < time.Duration(minFunctionRuntimeSecs)*time.Second
RanShort(ms) == ms < minFunctionRuntimeSecs * SecondMS

\* Backoff(attempts, jitterMS, maxMS) up to the start of time.Sleep
BackoffStart(s, attempts, jitterMS, maxMS) ==
    /\ ~IntnPanics(jitterMS)
    /\ \E backoff \in ExponentialBackoffMS(attempts, jitterMS, maxMS) :
          sleepMs' = [sleepMs EXCEPT ![s] = backoff]
    /\ sleeps' = [sleeps EXCEPT ![s] = Append(@, <<attempts, jitterMS, maxMS>>)]
    /\ lastSleepMs' = [lastSleepMs EXCEPT ![s] = 0]

\* time.Sleep returns (part_000:24): the sleep's duration has passed
SleepEnds(s) ==
    /\ clock' = [clock EXCEPT ![s] = Tick(s, sleepMs[s])]
    /\ lastSleepMs' = [lastSleepMs EXCEPT
                         ![s] = IF scope.tracked THEN sleepMs[s] ELSE @]
    /\ sleepMs' = [sleepMs EXCEPT ![s] = 0]

\* mutant of WithRestartCheck: the warning of line 95 is inside the fast
\* branch, so a long-running failure restarts without it
WithRestartCheckQuiet(s) ==
    /\ kind[s] = "WithRestart"
    /\ pc[s] = "returned"
    /\ IF err[s] = Nil
         THEN /\ pc' = [pc EXCEPT ![s] = "done"]
              /\ UNCHANGED <<attempt, sleepMs, sleeps, log, lastSleepMs>>
         ELSE IF RanShort(elapsed[s])
           THEN /\ BackoffStart(s, attempt[s], jitter, maxBackoff)
                /\ pc' = [pc EXCEPT ![s] = "sleep"]
                /\ UNCHANGED <<attempt, log>>
           ELSE /\ attempt' = [attempt EXCEPT ![s] = 0]
                /\ pc' = [pc EXCEPT ![s] = "loop"]
                /\ UNCHANGED <<sleepMs, sleeps, log, lastSleepMs>>
    /\ UNCHANGED <<panicnil, kind, task, scope, err, elapsed, outcome, hist,
                   calls, invocations, clock, backoffVars, fail>>

\* WithRestart lines 82-95, up to the sleep: success leaves the loop; a fast
\* failure starts the backoff sleep; a long-running failure resets attempt,
\* warns and loops
WithRestartCheck(s) ==
    /\ kind[s] = "WithRestart"
    /\ pc[s] = "returned"
    /\ IF err[s] = Nil
         THEN /\ pc' = [pc EXCEPT ![s] = "done"]
              /\ UNCHANGED <<attempt, sleepMs, sleeps, log, lastSleepMs>>
         ELSE IF RanShort(elapsed[s])
           THEN /\ BackoffStart(s, attempt[s], jitter, maxBackoff)
                /\ pc' = [pc EXCEPT ![s] = "sleep"]
                /\ UNCHANGED <<attempt, log>>
           ELSE /\ attempt' = [attempt EXCEPT ![s] = 0]
                /\ log' = [log EXCEPT ![s] = Append(@, Warn(s, "Restarting service"))]
                /\ pc' = [pc EXCEPT ![s] = "loop"]
                /\ UNCHANGED <<sleepMs, sleeps, lastSleepMs>>
    /\ UNCHANGED <<panicnil, kind, task, scope, err, elapsed, outcome, hist,
                   calls, invocations, clock, backoffVars, fail>>

\* mutant of WithRestartWake: `attempt` is a package-level variable, shared
\* by every supervisor
WithRestartWakeShared(s) ==
    /\ kind[s] = "WithRestart"
    /\ pc[s] = "sleep"
    /\ attempt' = [t \in DOMAIN attempt |-> attempt[t] + 1]
    /\ SleepEnds(s)
    /\ log' = [log EXCEPT ![s] = Append(@, Warn(s, "Restarting service"))]
    /\ pc' = [pc EXCEPT ![s] = "loop"]
    /\ UNCHANGED <<panicnil, kind, task, scope, err, elapsed, outcome, hist,
                   calls, invocations, sleeps, backoffVars, fail>>

\* WithRestart lines 88-95 after time.Sleep returned: attempt++, the warning,
\* and back to the head of the loop
WithRestartWake(s) ==
    /\ kind[s] = "WithRestart"
    /\ pc[s] = "sleep"
    /\ attempt' = [attempt EXCEPT ![s] = @ + 1]
    /\ SleepEnds(s)
    /\ log' = [log EXCEPT ![s] = Append(@, Warn(s, "Restarting service"))]
    /\ pc' = [pc EXCEPT ![s] = "loop"]
    /\ UNCHANGED <<panicnil, kind, task, scope, err, elapsed, outcome, hist,
                   calls, invocations, sleeps, backoffVars, fail>>

\* mutant of UntilSuccessfulCheck: the failure notice of line 113 is emitted
\* on success as well
UntilSuccessfulCheckNoisy(s) ==
    /\ kind[s] = "UntilSuccessful"
    /\ pc[s] = "returned"
    /\ log' = [log EXCEPT ![s] = Append(@, Warn(s, "Operation failed"))]
    /\ IF err[s] = Nil
         THEN /\ pc' = [pc EXCEPT ![s] = "done"]
              /\ UNCHANGED <<sleepMs, sleeps, lastSleepMs>>
         ELSE /\ BackoffStart(s, attempt[s], jitter, maxBackoff)
              /\ pc' = [pc EXCEPT ![s] = "sleep"]
    /\ UNCHANGED <<panicnil, kind, task, scope, attempt, err, elapsed, outcome,
                   hist, calls, invocations, clock, backoffVars, fail>>

\* UntilSuccessful lines 109-115, up to the sleep: success leaves the loop;
\* any failure warns and starts the backoff sleep
UntilSuccessfulCheck(s) ==
    /\ kind[s] = "UntilSuccessful"
    /\ pc[s] = "returned"
    /\ IF err[s] = Nil
         THEN /\ pc' = [pc EXCEPT ![s] = "done"]
              /\ UNCHANGED <<sleepMs, sleeps, log, lastSleepMs>>
         ELSE /\ log' = [log EXCEPT ![s] = Append(@, Warn(s, "Operation failed"))]
              /\ BackoffStart(s, attempt[s], jitter, maxBackoff)
              /\ pc' = [pc EXCEPT ![s] = "sleep"]
    /\ UNCHANGED <<panicnil, kind, task, scope, attempt, err, elapsed, outcome,
                   hist, calls, invocations, clock, backoffVars, fail>>

\* UntilSuccessful lines 115-118 after time.Sleep returned: attempt++, the
\* retry warning, and back to the head of the loop
UntilSuccessfulWake(s) ==
    /\ kind[s] = "UntilSuccessful"
    /\ pc[s] = "sleep"
    /\ attempt' = [attempt EXCEPT ![s] = @ + 1]
    /\ SleepEnds(s)
    /\ log' = [log EXCEPT ![s] = Append(@, Warn(s, "Retrying operation"))]
    /\ pc' = [pc EXCEPT ![s] = "loop"]
    /\ UNCHANGED <<panicnil, kind, task, scope, err, elapsed, outcome, hist,
                   calls, invocations, sleeps, backoffVars, fail>>

----------------------------------------------------------------------------
(* Specifications.                                                         *)

\* no supervisor is followed
NoScope == [limit |-> 0, tracked |-> FALSE]
\* the process has not exited
Running == -1

\* no FailOnError call is followed
NoFail == [pc |-> "none", err |-> Nil, msg |-> "", a |-> <<>>, log |-> <<>>,
           status |-> Running]

----------------------------------------------------------------------------
(* FailOnError (src/unnamed/part_000:45-51).                               *)

\* mutants of FailOnError: the message is logged but the process goes on;
\* the test of err is inverted
FailOnErrorNoExit(e, msg, a) ==
    IF e # Nil
      THEN [pc |-> "returned", status |-> Running,
            log |-> << [sev |-> "error", format |-> msg \o ": " \o e.text,
                        args |-> <<a>>] >>]
      ELSE [pc |-> "returned", status |-> Running, log |-> <<>>]

\* FailOnError(err, msg, a...): what the call does.  fmtString is
\* fmt.Sprintf("%s: %s", msg, err); logger.Error gets it as its format and
\* the slice a as its single argument; os.Exit(10) ends the process, so the
\* call does not return.
FailOnError(e, msg, a) ==
    IF e # Nil
      THEN [pc |-> "exited", status |-> ExitStatus,
            log |-> << [sev |-> "error", format |-> msg \o ": " \o e.text,
                        args |-> <<a>>] >>]
      ELSE [pc |-> "returned", status |-> Running, log |-> <<>>]

\* the calls of FailOnError followed
FailErrs == { Nil, ErrorValue("e1"), ErrorValue("connection refused"),
              Errorf(StringValue("boom")) }
FailMsgs == { "", "startup", "cannot connect", "bad config %s" }
FailArgs == { <<>>, <<"db">>, <<"db", "cache">>, <<"x">> }

CallFailOnError ==
    /\ fail.pc = "call"
    /\ LET r == FailOnError(fail.err, fail.msg, fail.a)
       IN  fail' = [fail EXCEPT !.pc = r.pc, !.status = r.status,
                                !.log = @ \o r.log]
    /\ UNCHANGED <<backoffVars, superVars>>

\* no ExponentialBackoffMS call is followed
BackoffIdle == args = NoArgs /\ ret = NoRet

\* the state of the supervisors in S right after `var attempt int`
SupervisorsInit(S) ==
    /\ kind \in [S -> {"WithRestart", "UntilSuccessful"}]
    /\ pc = [s \in S |-> "loop"]
    /\ attempt = [s \in S |-> 0]
    /\ err = [s \in S |-> Nil]
    /\ elapsed = [s \in S |-> 0]
    /\ sleepMs = [s \in S |-> 0]
    /\ outcome = [s \in S |-> NoOutcome]
    /\ hist = [s \in S |-> <<>>]
    /\ calls = [s \in S |-> 0]
    /\ invocations = [s \in S |-> 0]
    /\ sleeps = [s \in S |-> <<>>]
    /\ log = [s \in S |-> <<>>]
    /\ clock = [s \in S |-> 0]
    /\ lastSleepMs = [s \in S |-> 0]

InitBackoff ==
    /\ args \in [attempts : 0 .. MaxAttempts, jitterMS : JitterValues,
                 maxMS : MaxValues]
    /\ ret = NoRet
    /\ panicnil = FALSE
    /\ SupervisorsInit({})
    /\ task = [s \in {} |-> {}]
    /\ scope = NoScope
    /\ fail = NoFail

InitFailOnError ==
    /\ fail \in { [NoFail EXCEPT !.pc = "call", !.err = e, !.msg = m, !.a = a] :
                     e \in FailErrs, m \in FailMsgs, a \in FailArgs }
    /\ BackoffIdle
    /\ panicnil = FALSE
    /\ SupervisorsInit({})
    /\ task = [s \in {} |-> {}]
    /\ scope = NoScope

NextFailOnError == CallFailOnError

SpecFailOnError == InitFailOnError /\ [][NextFailOnError]_vars

NextBackoff == CallExponentialBackoffMS

SpecBackoff == InitBackoff /\ [][NextBackoff]_vars

Init ==
    /\ BackoffIdle
    /\ fail = NoFail
    /\ panicnil \in BOOLEAN
    /\ SupervisorsInit(Supervisors)
    /\ task = [s \in Supervisors |-> Behaviours(TaskOutcomes, ElapsedValues)]
    /\ scope = [limit |-> MaxInvocations, tracked |-> FALSE]

Next ==
    \E s \in Supervisors :
        \/ Invoke(s)
        \/ TaskEnds(s)
        \/ WithRestartCheck(s)
        \/ WithRestartWake(s)
        \/ UntilSuccessfulCheck(s)
        \/ UntilSuccessfulWake(s)

Spec == Init /\ [][Next]_vars

\* One supervisor followed with the duration of its last sleep kept:
\* either through a long run of attempts of a task that succeeds or returns
\* an error quickly, or through a shorter run of a task that does so quickly
\* or after 60 s (so that WithRestart resets its counter in between).
InitLong ==
    /\ BackoffIdle
    /\ fail = NoFail
    /\ panicnil = FALSE
    /\ SupervisorsInit(Supervisors)
    /\ \/ /\ task = [s \in Supervisors |->
                      Behaviours(LeanOutcomes,
                                 {minFunctionRuntimeSecs * SecondMS - 1})]
          /\ scope = [limit |-> MaxLongInvocations, tracked |-> TRUE]
       \/ /\ task = [s \in Supervisors |->
                      Behaviours(LeanOutcomes, ElapsedValues)]
          /\ scope = [limit |-> MaxInvocations + 1, tracked |-> TRUE]

SpecLong == InitLong /\ [][Next]_vars

\* Two supervisor calls running concurrently, each in its own goroutine:
\* x is a WithRestart whose task succeeds or returns an error, quickly or
\* after 60 s (so x's counter is incremented and reset); y is a WithRestart
\* or an UntilSuccessful whose task succeeds or returns an error quickly.
\* No task calls panic(nil), so the build's panicnil setting plays no part.
ConcurrentSupervisors == {"x", "y"}

InitConcurrent ==
    /\ BackoffIdle
    /\ fail = NoFail
    /\ panicnil = FALSE
    /\ SupervisorsInit(ConcurrentSupervisors)
    /\ kind["x"] = "WithRestart"
    /\ task = [s \in ConcurrentSupervisors |->
                 IF s = "x"
                   THEN Behaviours(LeanOutcomes, ElapsedValues)
                   ELSE Behaviours(LeanOutcomes,
                                   {minFunctionRuntimeSecs * SecondMS - 1})]
    /\ scope = [limit |-> MaxConcurrentInvocations, tracked |-> FALSE]

NextConcurrent ==
    \E s \in ConcurrentSupervisors :
        \/ Invoke(s)
        \/ TaskEnds(s)
        \/ WithRestartCheck(s)
        \/ WithRestartWake(s)
        \/ UntilSuccessfulCheck(s)
        \/ UntilSuccessfulWake(s)

SpecConcurrent == InitConcurrent /\ [][NextConcurrent]_vars

\* the scheduler runs a runnable goroutine, a sleep ends, and (the premise
\* of the termination claim) every task invocation ends
Fairness == \A s \in Supervisors :
    /\ WF_vars(Invoke(s))
    /\ WF_vars(TaskEnds(s))
    /\ WF_vars(WithRestartCheck(s))
    /\ WF_vars(WithRestartWake(s))
    /\ WF_vars(UntilSuccessfulCheck(s))
    /\ WF_vars(UntilSuccessfulWake(s))

FairSpec == Spec /\ Fairness

----------------------------------------------------------------------------
(* Claims about ExponentialBackoffMS, checked under SpecBackoff.           *)

BaseOf(a) == Pow2(a) * BaseMS
Returned == ret.kind # "none"

\* C1: for every attempts >= 0, jitterMS >= 0 (jitterMS = 0 included) and
\* maxMS > 0, the call completes with an integer of [0, maxMS] and never
\* aborts.
C1_CompletesInRange ==
    Returned =>
        /\ ret.kind = "value"
        /\ 0 <= ret.val
        /\ ret.val <= args.maxMS

----------------------------------------------------------------------------
(* Claims about DontPanic and the supervisors, checked under Spec.         *)

\* a past invocation that failed, by a returned error or by a panic
IsFailure(h) == h.out # Returns(Nil)
\* a past invocation that ran less than 60 seconds
IsFast(h) == h.ms < minFunctionRuntimeSecs * SecondMS
Last(q) == q[Len(q)]
\* the arguments of the k-th backoff of a run of fast failures
BackoffArgs(k) == <<k - 1, jitter, maxBackoff>>
\* DontPanic has come back from the call in progress
DontPanicOver(s) == pc[s] \in {"returned", "panicked"}

\* C4: when the task returns normally DontPanic returns exactly the value
\* the task returned (nil, or the very same error value), and the task was
\* invoked exactly once per DontPanic call.
C4_ReturnsTaskResult ==
    \A s \in Supervisors :
        (DontPanicOver(s) /\ outcome[s].kind = "return") =>
            /\ pc[s] = "returned"
            /\ err[s] = outcome[s].val
            /\ invocations[s] = calls[s]
            /\ Len(hist[s]) = calls[s]

\* DontPanic handed back the error value the task returned
C4_Witness ==
    \E s \in Supervisors :
        /\ pc[s] = "returned"
        /\ outcome[s] = Returns(ErrorValue("e1"))
        /\ err[s] = ErrorValue("e1")

\* C5: when the task panics, whatever the payload, the panic does not reach
\* DontPanic's caller and DontPanic returns a non-nil error whose text
\* represents the payload.
C5_PanicBecomesError ==
    \A s \in Supervisors :
        (DontPanicOver(s) /\ outcome[s].kind = "panic") =>
            /\ pc[s] = "returned"
            /\ err[s] # Nil
            /\ err[s].type = "error"
            /\ outcome[s].val # Nil => err[s].text = GoSyntax(outcome[s].val)

\* the Backoff calls of n consecutive counted failures
ExpectedSleeps(n) == [k \in 1 .. n |-> BackoffArgs(k)]

\* C6: if the task given to WithRestart fails, each time in less than 60 s,
\* on its first N invocations and succeeds on invocation N+1, WithRestart
\* returns after exactly N+1 invocations and N backoff sleeps, one between
\* each two consecutive invocations, the k-th with attempts = k-1, jitter
\* 100 and cap 64000.
C6_FastFailuresThenSuccess ==
    \A s \in Supervisors :
        LET N == Cardinality({i \in 1 .. Len(hist[s]) : IsFailure(hist[s][i])})
        IN  (/\ kind[s] = "WithRestart"
             /\ \A i \in 1 .. Len(hist[s]) :
                   IsFailure(hist[s][i]) => IsFast(hist[s][i]))
            =>
            /\ pc[s] = "task" =>
                  /\ Len(hist[s]) = N
                  /\ sleeps[s] = ExpectedSleeps(N)
            /\ pc[s] = "done" =>
                  /\ Len(hist[s]) = N + 1
                  /\ invocations[s] = N + 1
                  /\ sleeps[s] = ExpectedSleeps(N)

\* C7: in WithRestart a failed attempt that ran 60 s or longer resets the
\* counter to 0 and is followed by no backoff sleep, whatever the counter
\* was; so the first fast failure after a long-running failure sleeps with
\* attempts = 0.
C7_LongFailureResets ==
    /\ [][\A s \in Supervisors :
            (/\ kind[s] = "WithRestart"
             /\ pc[s] = "returned"
             /\ err[s] # Nil
             /\ elapsed[s] >= minFunctionRuntimeSecs * SecondMS)
            => (/\ attempt'[s] = 0
                /\ pc'[s] = "loop"
                /\ sleeps'[s] = sleeps[s]
                /\ sleepMs'[s] = sleepMs[s])]_vars
    /\ [](\A s \in Supervisors :
            (/\ kind[s] = "WithRestart"
             /\ pc[s] = "sleep"
             /\ Len(hist[s]) >= 2
             /\ ~IsFast(hist[s][Len(hist[s]) - 1]))
            => Last(sleeps[s]) = BackoffArgs(1))

\* a fast failure, a long-running one, then a fast one that sleeps with
\* attempts = 0 again
C7_Witness ==
    \E s \in Supervisors :
        /\ kind[s] = "WithRestart"
        /\ pc[s] = "sleep"
        /\ Len(hist[s]) = 3
        /\ IsFast(hist[s][1]) /\ ~IsFast(hist[s][2]) /\ IsFast(hist[s][3])
        /\ sleeps[s] = <<BackoffArgs(1), BackoffArgs(1)>>

\* C8: if the task given to UntilSuccessful fails on its first N
\* invocations, however long each ran, and succeeds on invocation N+1,
\* UntilSuccessful returns after exactly N+1 invocations and N backoff
\* sleeps, the k-th with attempts = k-1; the counter is never reset.
C8_FailuresThenSuccess ==
    \A s \in Supervisors :
        LET N == Cardinality({i \in 1 .. Len(hist[s]) : IsFailure(hist[s][i])})
        IN  kind[s] = "UntilSuccessful" =>
            /\ pc[s] = "task" =>
                  /\ Len(hist[s]) = N
                  /\ sleeps[s] = ExpectedSleeps(N)
                  /\ attempt[s] = N
            /\ pc[s] = "done" =>
                  /\ Len(hist[s]) = N + 1
                  /\ invocations[s] = N + 1
                  /\ sleeps[s] = ExpectedSleeps(N)
                  /\ attempt[s] = N

\* C9: a supervisor returns only right after an attempt for which DontPanic
\* returned nil, never after a failed attempt however many there were; no
\* task error or panic reaches its caller; and after it returned the task
\* is not invoked again.
C9_ReturnsOnlyOnSuccess ==
    /\ [](\A s \in Supervisors :
            /\ pc[s] # "panicked"
            /\ pc[s] = "done" =>
                  /\ err[s] = Nil
                  /\ Len(hist[s]) = invocations[s]
            /\ \A i \in 1 .. Len(hist[s]) :
                  hist[s][i].out = Returns(Nil) =>
                      (i = Len(hist[s]) /\ pc[s] \in {"returned", "done"}))
    /\ [][\A s \in Supervisors :
            /\ (pc[s] # "done" /\ pc'[s] = "done") =>
                  (pc[s] = "returned" /\ err[s] = Nil)
            /\ (pc[s] = "returned" /\ err[s] # Nil) => pc'[s] # "done"
            /\ pc[s] = "done" =>
                  (pc'[s] = "done" /\ invocations'[s] = invocations[s])]_vars

\* a supervisor that returned after the success that followed two failures
C9_Witness ==
    \E s \in Supervisors :
        /\ pc[s] = "done"
        /\ Len(hist[s]) = 3
        /\ IsFailure(hist[s][1]) /\ IsFailure(hist[s][2])
        /\ hist[s][3].out = Returns(Nil)

\* C10, second half: if the task fails on every invocation the supervisor
\* never returns.
C10_NeverReturnsWhileFailing ==
    \A s \in Supervisors :
        (\A i \in 1 .. Len(hist[s]) : IsFailure(hist[s][i])) => pc[s] # "done"

\* C10, first half: once the task has succeeded on an invocation the
\* supervisor returns, and every failed attempt is followed by a further
\* invocation (while the model follows the supervisor).
C10_ProgressUnderFairness ==
    \A s \in Supervisors :
        /\ (pc[s] = "returned" /\ outcome[s] = Returns(Nil)) ~> (pc[s] = "done")
        /\ (pc[s] = "returned" /\ err[s] # Nil /\ invocations[s] < MaxInvocations)
              ~> (pc[s] = "task")

----------------------------------------------------------------------------
(* Claims about the order of a supervisor's steps, checked under Spec.     *)

\* C11: within one supervisor call at most one invocation of the task is in
\* progress at any time, and invocation N+1 starts only after invocation N
\* has produced its outcome and the backoff sleep after it, if any, is over.
C11_AttemptsSequential ==
    /\ [](\A s \in Supervisors :
            /\ invocations[s] - Len(hist[s]) \in {0, 1}
            /\ pc[s] = "task" <=> invocations[s] = Len(hist[s]) + 1
            /\ pc[s] = "sleep" <=> sleepMs[s] > 0)
    /\ [][\A s \in Supervisors :
            invocations'[s] # invocations[s] =>
                /\ invocations'[s] = invocations[s] + 1
                /\ Len(hist[s]) = invocations[s]
                /\ pc[s] = "loop"
                /\ sleepMs[s] = 0]_vars

\* the third invocation in progress, after two outcomes and two sleeps
C11_Witness ==
    \E s \in Supervisors :
        /\ pc[s] = "task"
        /\ invocations[s] = 3
        /\ Len(hist[s]) = 2
        /\ Len(sleeps[s]) = 2
        /\ sleepMs[s] = 0

----------------------------------------------------------------------------
(* Claims about concurrent supervisors, checked under SpecConcurrent.      *)

\* everything one supervisor call owns
Local(s) ==
    <<pc[s], attempt[s], err[s], elapsed[s], sleepMs[s], outcome[s], hist[s],
      calls[s], invocations[s], sleeps[s], log[s], clock[s]>>

Front(q) == SubSeq(q, 1, Len(q) - 1)

\* the counter and the Backoff arguments a supervisor of kind k must have
\* after it dealt with the failed attempts hs, all its own
RECURSIVE AttemptAfter(_, _)
AttemptAfter(k, hs) ==
    IF hs = <<>> THEN 0
    ELSE IF k = "WithRestart" /\ ~IsFast(Last(hs)) THEN 0
    ELSE AttemptAfter(k, Front(hs)) + 1

RECURSIVE SleepsAfter(_, _)
SleepsAfter(k, hs) ==
    IF hs = <<>> THEN <<>>
    ELSE IF k = "WithRestart" /\ ~IsFast(Last(hs)) THEN SleepsAfter(k, Front(hs))
    ELSE Append(SleepsAfter(k, Front(hs)),
                BackoffArgs(AttemptAfter(k, Front(hs)) + 1))

\* the attempts of s that its loop has dealt with: all but one whose result
\* it is looking at, whose sleep is not over, or that succeeded
DealtWith(s) ==
    IF pc[s] \in {"returned", "sleep", "done"} THEN Front(hist[s]) ELSE hist[s]

\* C12: under every interleaving of concurrent supervisor calls, each
\* supervisor's counter changes only through its own failed attempts and
\* resets: a step of one supervisor changes nothing another one owns, and
\* each supervisor's counter, Backoff arguments and termination follow from
\* its own task's history alone.
C12_IndependentSupervisors ==
    /\ [][\E s \in ConcurrentSupervisors :
            \A t \in ConcurrentSupervisors \ {s} : Local(t)' = Local(t)]_vars
    /\ [](\A s \in ConcurrentSupervisors :
            /\ attempt[s] = AttemptAfter(kind[s], DealtWith(s))
            /\ sleeps[s] = IF pc[s] = "sleep"
                             THEN SleepsAfter(kind[s], hist[s])
                             ELSE SleepsAfter(kind[s], DealtWith(s))
            /\ (hist[s] # <<>> /\ ~IsFailure(Last(hist[s])))
                  <=> pc[s] \in {"returned", "done"} /\ err[s] = Nil)

\* x has failed twice and sleeps with attempts = 1 while y, which failed
\* once, sleeps with attempts = 0
C12_Witness ==
    /\ pc["x"] = "sleep" /\ pc["y"] = "sleep"
    /\ Len(hist["x"]) = 2 /\ Len(hist["y"]) = 1
    /\ Last(sleeps["x"]) = BackoffArgs(2)
    /\ Last(sleeps["y"]) = BackoffArgs(1)
    /\ attempt["x"] = 1 /\ attempt["y"] = 0

----------------------------------------------------------------------------
(* Claims about long runs of failures, checked under SpecLong.             *)

\* C13: every backoff suspension of WithRestart or UntilSuccessful lasts at
\* most 64000 ms, for every value the attempt counter reaches.
C13_SleepBounded ==
    \A s \in Supervisors :
        /\ sleepMs[s] <= maxBackoff
        /\ lastSleepMs[s] <= maxBackoff
        /\ pc[s] = "sleep" => sleepMs[s] >= BaseMS

\* the eighth consecutive failure sleeps the full 64000 ms
C13_Witness ==
    \E s \in Supervisors :
        /\ pc[s] = "sleep"
        /\ attempt[s] = 7
        /\ sleepMs[s] = maxBackoff

\* a backoff sleep of s starts in this step
SleepStarts(s) == pc[s] = "returned" /\ pc'[s] = "sleep"

\* C20: with jitter 100 and cap 64000, over consecutive backed-off failures
\* with no reset in between each sleep is strictly longer than the one
\* before until 64000 ms is reached; from the 7th consecutive failure
\* (attempts = 6) on it is exactly 64000 ms; and a sleep is shorter than the
\* one before only after WithRestart reset the counter for a long-running
\* failure.
C20_SleepsIncreaseToCap ==
    [][\A s \in Supervisors :
         (SleepStarts(s) /\ sleeps[s] # <<>>) =>
            /\ attempt[s] = Last(sleeps[s])[1] + 1 =>
                  IF lastSleepMs[s] < maxBackoff
                    THEN sleepMs'[s] > lastSleepMs[s]
                    ELSE sleepMs'[s] = maxBackoff
            /\ attempt[s] >= 6 => sleepMs'[s] = maxBackoff
            /\ sleepMs'[s] < lastSleepMs[s] =>
                  /\ kind[s] = "WithRestart"
                  /\ attempt[s] = 0
                  /\ ~IsFast(hist[s][Len(hist[s]) - 1])]_vars

\* the seventh consecutive failure sleeps 64000 ms after a sleep of less
\* than that
C20_Witness ==
    \E s \in Supervisors :
        /\ pc[s] = "sleep"
        /\ Last(sleeps[s]) = BackoffArgs(7)
        /\ Len(sleeps[s]) = 7
        /\ sleepMs[s] = maxBackoff

----------------------------------------------------------------------------
(* Claim about FailOnError, checked under SpecFailOnError.                 *)

\* C14: FailOnError with a nil err has no effect and returns; with a
\* non-nil err it logs one error-severity message and ends the process with
\* the non-zero status 10, never returning to its caller.
C14_FailOnError ==
    fail.pc # "call" =>
        IF fail.err = Nil
          THEN /\ fail.pc = "returned"
               /\ fail.log = <<>>
               /\ fail.status = Running
          ELSE /\ fail.pc = "exited"
               /\ fail.status = 10
               /\ fail.status # 0
               /\ Len(fail.log) = 1
               /\ fail.log[1].sev = "error"

\* a call with a non-nil err has ended the process
C14_Witness ==
    /\ fail.pc = "exited"
    /\ fail.err = ErrorValue("connection refused")
    /\ fail.msg = "cannot connect"
    /\ Len(fail.log) = 1

----------------------------------------------------------------------------
(* Claims about the supervisors' decisions and diagnostics, checked under  *)
(* Spec.                                                                   *)

\* the warnings and the DontPanic diagnostics a supervisor call has emitted
IsWarn(r) == r.sev = "warn"
IsDiag(r) == r.sev # "warn"
Warnings(s) == SelectSeq(log[s], IsWarn)
Diagnostics(s) == SelectSeq(log[s], IsDiag)

\* the number of warnings after the failed attempts hs were dealt with
WarningsAfter(k, hs) == IF k = "WithRestart" THEN Len(hs) ELSE 2 * Len(hs)

\* C15: a supervisor cannot tell a returned error from a panic: its
\* decisions (invocations, counter, sleeps and resets, warnings,
\* termination) are determined by which attempts failed, by error or by
\* panic alike, and by how long each ran.
C15_ErrorAndPanicAlike ==
    \A s \in Supervisors :
        /\ invocations[s] = Len(hist[s]) + (IF pc[s] = "task" THEN 1 ELSE 0)
        /\ attempt[s] = AttemptAfter(kind[s], DealtWith(s))
        /\ sleeps[s] = IF pc[s] = "sleep" THEN SleepsAfter(kind[s], hist[s])
                       ELSE SleepsAfter(kind[s], DealtWith(s))
        /\ Len(Warnings(s)) =
              WarningsAfter(kind[s], DealtWith(s))
                 + (IF kind[s] = "UntilSuccessful" /\ pc[s] = "sleep"
                      THEN 1 ELSE 0)
        /\ \A i \in 1 .. Len(DealtWith(s)) : IsFailure(hist[s][i])
        /\ pc[s] = "done" => ~IsFailure(Last(hist[s]))
        /\ pc[s] = "sleep" => IsFailure(Last(hist[s]))

\* the task's run time as WithRestart measures it is that of the invocation
\* alone
MeasuredAlone(s) ==
    (kind[s] = "WithRestart" /\ pc[s] = "returned") =>
        elapsed[s] = Last(hist[s]).ms

\* WithRestart looks at the result of a failed attempt in this step
Classifies(s) ==
    /\ kind[s] = "WithRestart"
    /\ pc[s] = "returned" /\ pc'[s] # "returned"
    /\ err[s] # Nil

FailedAttempts(s) ==
    Cardinality({ i \in 1 .. Len(hist[s]) :
                    DontPanic(s, hist[s][i].out, panicnil).err # Nil })

\* the last attempt of s failed and its warning is still to come
Unwarned(s) ==
    IF pc[s] \in {"returned", "sleep"} /\ err[s] # Nil THEN 1 ELSE 0

\* C17: WithRestart emits exactly one 'restarting' warning per failed
\* attempt, fast or long-running, after the attempt's sleep (if any) and
\* before the next invocation, and none after the successful attempt.
C17_OneRestartWarning ==
    /\ [](\A s \in Supervisors : kind[s] = "WithRestart" =>
            /\ Len(Warnings(s)) = FailedAttempts(s) - Unwarned(s)
            /\ \A i \in 1 .. Len(Warnings(s)) :
                  Warnings(s)[i] = Warn(s, "Restarting service")
            /\ pc[s] \in {"task", "done"} => Len(Warnings(s)) = FailedAttempts(s))
    /\ [][\A s \in Supervisors : kind[s] = "WithRestart" =>
            (Warnings(s)' # Warnings(s) =>
                /\ Warnings(s)' = Append(Warnings(s), Warn(s, "Restarting service"))
                /\ pc[s] \in {"sleep", "returned"} /\ err[s] # Nil
                /\ pc[s] = "returned" => ~IsFast(Last(hist[s]))
                /\ sleepMs'[s] = 0
                /\ pc'[s] = "loop"
                /\ invocations'[s] = invocations[s])]_vars

\* WithRestart invokes the task a third time after a fast and a
\* long-running failure, with two warnings emitted
C17_Witness ==
    \E s \in Supervisors :
        /\ kind[s] = "WithRestart"
        /\ pc[s] = "task"
        /\ Len(hist[s]) = 2
        /\ IsFast(hist[s][1]) /\ ~IsFast(hist[s][2])
        /\ Len(Warnings(s)) = 2

\* the warnings of UntilSuccessful after n failed attempts were retried
RECURSIVE NoticePairs(_, _)
NoticePairs(s, n) ==
    IF n = 0 THEN <<>>
    ELSE NoticePairs(s, n - 1)
           \o <<Warn(s, "Operation failed"), Warn(s, "Retrying operation")>>

\* C18: UntilSuccessful emits exactly two warnings per failed attempt and
\* none for the successful one: the failure notice before the backoff
\* sleep, the retry notice after the sleep and the counter increment and
\* before the next invocation.
C18_TwoWarnings ==
    /\ [](\A s \in Supervisors : kind[s] = "UntilSuccessful" =>
            Warnings(s) =
              IF pc[s] = "sleep"
                THEN Append(NoticePairs(s, FailedAttempts(s) - 1),
                            Warn(s, "Operation failed"))
                ELSE NoticePairs(s, FailedAttempts(s) - Unwarned(s)))
    /\ [][\A s \in Supervisors : kind[s] = "UntilSuccessful" =>
            /\ (pc[s] = "returned" /\ pc'[s] = "sleep") =>
                  /\ Warnings(s)' = Append(Warnings(s), Warn(s, "Operation failed"))
                  /\ sleepMs'[s] > 0
            /\ (pc[s] = "sleep" /\ pc'[s] = "loop") =>
                  /\ Warnings(s)' = Append(Warnings(s), Warn(s, "Retrying operation"))
                  /\ attempt'[s] = attempt[s] + 1
                  /\ sleepMs'[s] = 0
                  /\ invocations'[s] = invocations[s]
            /\ (pc'[s] \in {"task", "done"} /\ pc'[s] # pc[s]) =>
                  Warnings(s)' = Warnings(s)]_vars

\* UntilSuccessful has returned after two failures and a success, with four
\* warnings emitted
C18_Witness ==
    \E s \in Supervisors :
        /\ kind[s] = "UntilSuccessful"
        /\ pc[s] = "done"
        /\ Len(hist[s]) = 3
        /\ Len(Warnings(s)) = 4

\* what DontPanic must emit for the attempts hs of supervisor s
RECURSIVE PanicRecords(_, _)
PanicRecords(s, hs) ==
    IF hs = <<>> THEN <<>>
    ELSE PanicRecords(s, Front(hs))
           \o (IF Last(hs).out.kind = "panic"
                 THEN << [sev |-> "error", op |-> s,
                          text |-> GoSyntax(IF Last(hs).out.val = Nil
                                              THEN PanicNilError
                                              ELSE Last(hs).out.val)],
                         [sev |-> "stack", op |-> "", text |-> ""] >>
                 ELSE <<>>)

\* C19: DontPanic emits diagnostics only for panics: one error-severity
\* record with opName and the payload, then the stack trace, once per
\* panicking attempt; nothing when the task returns normally.
C19_DiagnosticsForPanics ==
    \A s \in Supervisors : Diagnostics(s) = PanicRecords(s, hist[s])

====
